---- MODULE Spec2Model ----
(***************************************************************************)
(* Model of threads_post.py: a single sequential run that resolves a       *)
(* content item (CONTENT_* environment values or a Shopify catalog read),  *)
(* composes a caption with _build_text and posts it through the Threads    *)
(* two-phase protocol (create container, then publish).                    *)
(*                                                                         *)
(* Python str values that the program processes character by character     *)
(* are sequences of one-character strings.  The Python value None is the   *)
(* one-element sequence None, whose element is no character.               *)
(***************************************************************************)
EXTENDS Integers, Sequences, FiniteSets, TLC

VARIABLES
    \* configuration read from the environment (lines 10-28)
    THREADS_USER_ACCESS_TOKEN, THREADS_VISIBILITY, THREADS_TOPIC_TAG,
    THREADS_AUTO_PUBLISH_TEXT,
    CONTENT_TITLE, CONTENT_DESC, CONTENT_HANDLE, CONTENT_IMAGE_URL,
    SHOPIFY_TOKEN, PRODUCT_HANDLE, CAPTION_LIMIT,
    \* the run (lines 138-188)
    pc,           \* position of the script
    title, desc, handle, image_url,   \* the resolved content item
    text,         \* the composed caption
    creation_id,  \* identifier returned by the create-container call
    post_id,      \* identifier returned by the publish call
    calls,        \* the remote calls made so far, in order, with their outcome
    error,        \* the exception that ended the run, NoError while none
    exit_status   \* "running", then "ok" or "failed" once pc = "end"

config == <<THREADS_USER_ACCESS_TOKEN, THREADS_VISIBILITY, THREADS_TOPIC_TAG,
            THREADS_AUTO_PUBLISH_TEXT, CONTENT_TITLE, CONTENT_DESC,
            CONTENT_HANDLE, CONTENT_IMAGE_URL, SHOPIFY_TOKEN, PRODUCT_HANDLE,
            CAPTION_LIMIT>>

vars == <<config, pc, title, desc, handle, image_url, text, creation_id,
          post_id, calls, error, exit_status>>

(***************************************************************************)
(* Bounds of the model.                                                    *)
(***************************************************************************)
MaxTitleLen == 3
MaxDescLen == 1
MaxLimit == 5
MaxProducts == 2
LongTitleLen == 300

(***************************************************************************)
(* Python values and str methods.                                          *)
(***************************************************************************)
None == <<"None">>

\* bool(x) of an optional str: None and "" are falsy
Truthy(x) == x # None /\ x # <<>>

\* x or y
Or(x, y) == IF Truthy(x) THEN x ELSE y

IsSpace(c) == c \in {" ", "\n"}

\* s.lstrip(): drop the leading whitespace
lstrip(s) ==
    IF \A i \in 1..Len(s) : IsSpace(s[i]) THEN <<>>
    ELSE LET first == CHOOSE i \in 1..Len(s) :
                          ~IsSpace(s[i]) /\ \A j \in 1..(i - 1) : IsSpace(s[j])
         IN  SubSeq(s, first, Len(s))

\* s.rstrip(): drop the trailing whitespace
rstrip(s) ==
    IF \A i \in 1..Len(s) : IsSpace(s[i]) THEN <<>>
    ELSE LET last == CHOOSE i \in 1..Len(s) :
                         ~IsSpace(s[i]) /\ \A j \in (i + 1)..Len(s) : IsSpace(s[j])
         IN  SubSeq(s, 1, last)

\* s.strip()
strip(s) == rstrip(lstrip(s))

\* s[:n], for any integer n (a negative n counts from the end)
SliceTo(s, n) ==
    IF n >= 0
    THEN SubSeq(s, 1, IF n < Len(s) THEN n ELSE Len(s))
    ELSE SubSeq(s, 1, IF Len(s) + n > 0 THEN Len(s) + n ELSE 0)

\* the sequences over S of length at most n
SeqsUpTo(S, n) == UNION {[1..k -> S] : k \in 0..n}

\* s.lower() on the letters the model uses
LowerChar(c) == IF c = "H" THEN "h" ELSE IF c = "G" THEN "g" ELSE c
lower(s) == [i \in 1..Len(s) |-> LowerChar(s[i])]

(***************************************************************************)
(* html.unescape, restricted to text over the characters                   *)
(*   space, newline, "&", "l", "t", ";"  (and any other plain letter).     *)
(* A character reference is "&", a maximal run of name characters and an   *)
(* optional ";".  The only names of html.entities.html5 over the letters   *)
(* l and t are "lt", "lt;" and "ll;".                                      *)
(***************************************************************************)
\* the one character U+226A, which "&ll;" names
MuchLess == "<<"

IsNameChar(c) == c \notin {"\t", "\n", " ", "<", "&", "#", ";"}

\* length of the maximal run of name characters at the start of s
NameRun(s) ==
    IF \A i \in 1..Len(s) : IsNameChar(s[i]) THEN Len(s)
    ELSE (CHOOSE i \in 1..Len(s) :
              ~IsNameChar(s[i]) /\ \A j \in 1..(i - 1) : IsNameChar(s[j])) - 1

\* _replace_charref of the named reference "&" \o name
ReplaceCharref(name) ==
    IF name = <<"l", "t", ";">> \/ name = <<"l", "t">> THEN <<"<">>
    ELSE IF name = <<"l", "l", ";">> THEN <<MuchLess>>
    ELSE IF Len(name) >= 3 /\ SubSeq(name, 1, 2) = <<"l", "t">>
         THEN <<"<">> \o SubSeq(name, 3, Len(name))
    ELSE <<"&">> \o name

\* html.unescape(s): text without "&" is returned as it is; otherwise every
\* character reference is replaced, left to right
RECURSIVE unescape(_)
unescape(s) ==
    IF \A i \in 1..Len(s) : s[i] # "&" THEN s
    ELSE LET amp == CHOOSE i \in 1..Len(s) :
                        s[i] = "&" /\ \A j \in 1..(i - 1) : s[j] # "&"
             rest == SubSeq(s, amp + 1, Len(s))
             run == NameRun(rest)
             semi == IF run > 0 /\ Len(rest) > run /\ rest[run + 1] = ";" THEN 1 ELSE 0
         IN  SubSeq(s, 1, amp - 1) \o
             (IF run = 0 THEN <<"&">> \o unescape(rest)
              ELSE ReplaceCharref(SubSeq(rest, 1, run + semi))
                   \o unescape(SubSeq(rest, run + semi + 1, Len(rest))))

(***************************************************************************)
(* _build_text (lines 42-51).                                              *)
(***************************************************************************)
Ellipsis == <<".", ".", ".">>
BlankLine == <<"\n", "\n">>
ProductUrlBase ==
    <<"h","t","t","p","s",":","/","/","m","y","d","r","x","m",".","c","o","m",
      "/","p","r","o","d","u","c","t","s","/">>

\* line 45
Link(h) == IF Truthy(h) THEN ProductUrlBase \o h ELSE <<>>

\* line 46, with lines 43-44
Base(t, d) ==
    strip(unescape(strip(Or(t, <<>>))) \o BlankLine \o unescape(strip(Or(d, <<>>))))

\* Truncate without room kept for the ellipsis
TruncateNoReserve(base, limit) ==
    IF Len(base) > limit THEN rstrip(SliceTo(base, limit)) \o Ellipsis ELSE base

\* lines 47-48
Truncate(base, limit) ==
    IF Len(base) > limit THEN rstrip(SliceTo(base, limit - 3)) \o Ellipsis ELSE base

\* lines 49-50
AppendLink(base, link) == IF link # <<>> THEN base \o BlankLine \o link ELSE base

\* _build_text with the link appended before the truncation
BuildTextLinkFirst(t, d, h) == Truncate(AppendLink(Base(t, d), Link(h)), CAPTION_LIMIT)

_build_text(t, d, h) == AppendLink(Truncate(Base(t, d), CAPTION_LIMIT), Link(h))

(***************************************************************************)
(* _clean_html_to_text (lines 36-40) on markup made of tags and text (no   *)
(* character references): the text nodes between the tags, each stripped,  *)
(* the empty ones dropped, joined by one space.                            *)
(***************************************************************************)
max_chars == 3000

\* the text nodes of s, in document order
RECURSIVE TextNodes(_)
TextNodes(s) ==
    IF s = <<>> THEN <<>>
    ELSE IF Head(s) = "<"
    THEN IF \E i \in 1..Len(s) : s[i] = ">"
         THEN LET close == CHOOSE i \in 1..Len(s) :
                               s[i] = ">" /\ \A j \in 1..(i - 1) : s[j] # ">"
              IN  TextNodes(SubSeq(s, close + 1, Len(s)))
         ELSE <<>>
    ELSE IF \E i \in 1..Len(s) : s[i] = "<"
         THEN LET open == CHOOSE i \in 1..Len(s) :
                              s[i] = "<" /\ \A j \in 1..(i - 1) : s[j] # "<"
              IN  <<SubSeq(s, 1, open - 1)>> \o TextNodes(SubSeq(s, open, Len(s)))
         ELSE <<s>>

RECURSIVE JoinStripped(_)
JoinStripped(nodes) ==
    IF nodes = <<>> THEN <<>>
    ELSE LET first == strip(Head(nodes))
             rest == JoinStripped(Tail(nodes))
         IN  IF first = <<>> THEN rest
             ELSE IF rest = <<>> THEN first
             ELSE first \o <<" ">> \o rest

_clean_html_to_text(html_content) ==
    IF ~Truthy(html_content) THEN <<>>
    ELSE JoinStripped(TextNodes(SliceTo(html_content, max_chars)))

(***************************************************************************)
(* The remote services: what a call can come back with.                    *)
(***************************************************************************)
\* "ok": a 2xx response; "HTTPError": raise_for_status() raises;
\* "Timeout": requests raises after the timeout
Outcomes == {"ok", "HTTPError", "Timeout"}

\* a failed call that does not raise
FailedIgnored(outcome) == FALSE

\* lines 63-64, 73-74, 101-102, 122-123, 132-133: the call raises
Failed(outcome) == outcome # "ok"

CreationIds == {"c1", "c2"}
PostIds == {"p1"}

NewProduct == <<"N","e","w"," ","P","r","o","d","u","c","t">>

Products ==
    { [title |-> <<"l", "t">>,
       body_html |-> <<"<","p",">","l"," ","<","b",">","t","<","/","b",">","<","/","p",">">>,
       handle |-> <<"h">>,
       images |-> << [src |-> <<"u">>], [src |-> <<"v">>] >>],
      [title |-> None, body_html |-> None, handle |-> <<"g">>, images |-> <<>>],
      [title |-> <<"&", "l", "t", "l", "l", " ", "l">>,
       body_html |-> <<"l", "l", "l">>,
       handle |-> <<"h">>,
       images |-> <<>>] }

\* the published products a catalog page can hold
Pages == SeqsUpTo(Products, MaxProducts)

Absent == "absent"

Call(ep, outcome, id) ==
    [ep |-> ep, outcome |-> outcome, id |-> IF outcome = "ok" THEN id ELSE Absent,
     limit |-> 0, media_type |-> Absent, text |-> None, image_url |-> None,
     alt_text |-> None, reply_control |-> Absent, topic_tag |-> Absent,
     auto_publish_text |-> Absent, creation_id |-> Absent, products |-> <<>>]

NUM_PRODUCTS_TO_FETCH == 100

\* line 28: the default of CAPTION_LIMIT
DefaultLimit == 280
PageCap == 250

Min(a, b) == IF a < b THEN a ELSE b
Max(a, b) == IF a > b THEN a ELSE b

\* lines 62-63 and 72-73: GET products.json
CatalogCall(limit, outcome, page) ==
    [Call("catalog", outcome, Absent) EXCEPT
        !.limit = limit, !.products = IF outcome = "ok" THEN page ELSE <<>>]

\* line 91 and line 114
TopicTagParam == IF THREADS_TOPIC_TAG # "" THEN THREADS_TOPIC_TAG ELSE Absent

\* lines 93-94
AutoPublishParam(auto) == IF auto THEN "true" ELSE Absent

\* lines 112-113
AltTextParam(alt_text) == IF Truthy(alt_text) THEN alt_text ELSE None

\* lines 86-103: POST /me/threads, media_type TEXT
TextRequest(t, outcome, id) ==
    [Call("create", outcome, id) EXCEPT
        !.text = t, !.media_type = "TEXT", !.reply_control = THREADS_VISIBILITY,
        !.topic_tag = TopicTagParam,
        !.auto_publish_text = AutoPublishParam(THREADS_AUTO_PUBLISH_TEXT)]

\* lines 106-124: POST /me/threads, media_type IMAGE
ImageRequest(t, url, alt_text, outcome, id) ==
    [Call("create", outcome, id) EXCEPT
        !.text = t, !.media_type = "IMAGE", !.image_url = url,
        !.reply_control = THREADS_VISIBILITY, !.alt_text = AltTextParam(alt_text),
        !.topic_tag = TopicTagParam]

\* lines 127-134: POST /me/threads_publish
PublishRequest(cid, outcome, id) ==
    [Call("publish", outcome, id) EXCEPT !.creation_id = cid]

(***************************************************************************)
(* The run (lines 138-188).                                                *)
(***************************************************************************)
NoError == "NoError"

content == <<title, desc, handle, image_url>>

\* an exception leaves the script: lines 186-188, or SystemExit
Fail(e) == pc' = "end" /\ error' = e /\ exit_status' = "failed"

\* The module body runs first.  Line 126 annotates a parameter with the
\* undefined name string: an interpreter that evaluates annotations when the
\* def statement runs raises NameError there, before line 138; one that
\* evaluates them lazily goes on.
LoadModule ==
    /\ pc = "load"
    /\ \E eager \in BOOLEAN :
          IF eager THEN Fail("NameError")
          ELSE pc' = "require" /\ UNCHANGED <<error, exit_status>>
    /\ UNCHANGED <<config, content, text, creation_id, post_id, calls>>

\* _require_threads without its check
TokenMissingNever(token) == FALSE

\* line 33
TokenMissing(token) == token = ""

\* line 140, lines 32-34
RequireThreads ==
    /\ pc = "require"
    /\ IF TokenMissing(THREADS_USER_ACCESS_TOKEN) THEN Fail("ThreadsTokenMissing")
       ELSE pc' = "content" /\ UNCHANGED <<error, exit_status>>
    /\ UNCHANGED <<config, content, text, creation_id, post_id, calls>>

\* the direct values used only when no product handle is configured
UseDirectUnlessHandle ==
    Truthy(CONTENT_TITLE) /\ Truthy(CONTENT_DESC) /\ ~Truthy(PRODUCT_HANDLE)

\* line 143
UseDirectContent == Truthy(CONTENT_TITLE) /\ Truthy(CONTENT_DESC)

\* (x or "").strip() or None, lines 146-147
StripOrNone(x) == Or(strip(Or(x, <<>>)), None)

\* lines 143-148
ResolveDirect ==
    /\ pc = "content"
    /\ UseDirectContent
    /\ title' = strip(CONTENT_TITLE)
    /\ desc' = strip(CONTENT_DESC)
    /\ handle' = StripOrNone(CONTENT_HANDLE)
    /\ image_url' = StripOrNone(CONTENT_IMAGE_URL)
    /\ pc' = "build"
    /\ UNCHANGED <<config, text, creation_id, post_id, calls, error, exit_status>>

\* lines 159-164
SelectProduct(product) ==
    /\ title' = Or(product.title, NewProduct)
    /\ desc' = _clean_html_to_text(product.body_html)
    /\ handle' = product.handle
    /\ image_url' = IF product.images # <<>> THEN product.images[1].src ELSE None
    /\ pc' = "build"
    /\ UNCHANGED <<error, exit_status>>

\* lines 65-68: the index of the first product whose handle matches, 0 for None
FindByHandle(page, h) ==
    LET matches == {i \in 1..Len(page) : lower(Or(page[i].handle, <<>>)) = lower(h)}
    IN  IF matches = {} THEN 0 ELSE CHOOSE i \in matches : \A j \in matches : i <= j

\* _shopify_headers without its check
ShopifyTokenMissingNever(token) == FALSE

\* line 56
ShopifyTokenMissing(token) == token = ""

\* lines 150-154, shopify_fetch_by_handle (lines 60-68)
FetchByHandle ==
    /\ pc = "content"
    /\ ~UseDirectContent
    /\ Truthy(PRODUCT_HANDLE)
    /\ IF ShopifyTokenMissing(SHOPIFY_TOKEN)
       THEN Fail("ShopifyTokenMissing") /\ UNCHANGED <<content, calls>>
       ELSE \E outcome \in Outcomes, page \in Pages :
               /\ calls' = Append(calls, CatalogCall(PageCap, outcome, page))
               /\ IF Failed(outcome) THEN Fail(outcome) /\ UNCHANGED content
                  ELSE LET found == FindByHandle(page, PRODUCT_HANDLE)
                       IN  IF found = 0
                           THEN Fail("NoProductFound") /\ UNCHANGED content
                           ELSE SelectProduct(page[found])
    /\ UNCHANGED <<config, text, creation_id, post_id>>

\* lines 155-157, shopify_fetch_random (lines 70-78)
FetchRandom ==
    /\ pc = "content"
    /\ ~UseDirectContent
    /\ ~Truthy(PRODUCT_HANDLE)
    /\ IF ShopifyTokenMissing(SHOPIFY_TOKEN)
       THEN Fail("ShopifyTokenMissing") /\ UNCHANGED <<content, calls>>
       ELSE \E outcome \in Outcomes, page \in Pages :
               /\ calls' = Append(calls,
                      CatalogCall(Min(PageCap, Max(1, NUM_PRODUCTS_TO_FETCH)), outcome, page))
               /\ IF Failed(outcome) THEN Fail(outcome) /\ UNCHANGED content
                  ELSE IF page = <<>>
                       THEN Fail("NoProducts") /\ UNCHANGED content
                       ELSE \E i \in 1..Len(page) : SelectProduct(page[i])
    /\ UNCHANGED <<config, text, creation_id, post_id>>

\* line 167
BuildText ==
    /\ pc = "build"
    /\ text' = _build_text(title, desc, handle)
    /\ pc' = "create"
    /\ UNCHANGED <<config, content, creation_id, post_id, calls, error, exit_status>>

\* the kind chosen from the configured image URL, not the resolved one
MediaKindFromConfig(url) == IF Truthy(CONTENT_IMAGE_URL) THEN "IMAGE" ELSE "TEXT"

\* lines 170 and 176
MediaKind(url) == IF Truthy(url) THEN "IMAGE" ELSE "TEXT"

\* line 179 without the auto-publish branch
SkipPublishNever(auto) == FALSE

\* line 179: a text post that was auto-published is not published again
SkipPublish(auto) == auto

\* lines 170-172
CreateImage ==
    /\ pc = "create"
    /\ MediaKind(image_url) = "IMAGE"
    /\ \E outcome \in Outcomes, id \in CreationIds :
          /\ calls' = Append(calls, ImageRequest(text, image_url, title, outcome, id))
          /\ IF Failed(outcome) THEN Fail(outcome) /\ UNCHANGED creation_id
             ELSE /\ creation_id' = id
                  /\ pc' = "publish"
                  /\ UNCHANGED <<error, exit_status>>
    /\ UNCHANGED <<config, content, text, post_id>>

\* lines 176-180
CreateText ==
    /\ pc = "create"
    /\ MediaKind(image_url) = "TEXT"
    /\ \E outcome \in Outcomes, id \in CreationIds :
          /\ calls' = Append(calls, TextRequest(text, outcome, id))
          /\ IF Failed(outcome) THEN Fail(outcome) /\ UNCHANGED creation_id
             ELSE /\ creation_id' = id
                  /\ IF SkipPublish(THREADS_AUTO_PUBLISH_TEXT)
                     THEN pc' = "end" /\ exit_status' = "ok" /\ UNCHANGED error
                     ELSE pc' = "publish" /\ UNCHANGED <<error, exit_status>>
    /\ UNCHANGED <<config, content, text, post_id>>

\* threads_publish called with a fixed identifier
PublishArgumentFixed(cid) == "c1"

\* the identifier handed to threads_publish, lines 174 and 183
PublishArgument(cid) == cid

\* lines 173-175 and 182-184
Publish ==
    /\ pc = "publish"
    /\ \E outcome \in Outcomes, id \in PostIds :
          /\ calls' = Append(calls, PublishRequest(PublishArgument(creation_id), outcome, id))
          /\ IF Failed(outcome) THEN Fail(outcome) /\ UNCHANGED post_id
             ELSE /\ post_id' = id
                  /\ pc' = "end"
                  /\ exit_status' = "ok"
                  /\ UNCHANGED error
    /\ UNCHANGED <<config, content, text, creation_id>>

ContentTitles == {None, <<" ">>, <<"l", "t">>, <<"&", "l", "t", "l", "l", "l">>}
ContentDescs == {None, <<>>, <<"l", " ", "t">>}
ContentHandles == {None, <<" ">>, <<"h">>}
ContentImageUrls == {None, <<" ">>, <<"u">>}
ProductHandles == {None, <<"H">>}
CaptionLimits == {4, DefaultLimit}

Init ==
    /\ THREADS_USER_ACCESS_TOKEN \in {"", "tok"}
    /\ THREADS_VISIBILITY = "everyone"
    /\ THREADS_TOPIC_TAG \in {"", "Shopify"}
    /\ THREADS_AUTO_PUBLISH_TEXT \in BOOLEAN
    /\ CONTENT_TITLE \in ContentTitles
    /\ CONTENT_DESC \in ContentDescs
    /\ CONTENT_HANDLE \in ContentHandles
    /\ CONTENT_IMAGE_URL \in ContentImageUrls
    /\ SHOPIFY_TOKEN \in {"", "shp"}
    /\ PRODUCT_HANDLE \in ProductHandles
    /\ CAPTION_LIMIT \in CaptionLimits
    /\ pc = "load"
    /\ title = None /\ desc = None /\ handle = None /\ image_url = None
    /\ text = None
    /\ creation_id = Absent /\ post_id = Absent
    /\ calls = <<>>
    /\ error = NoError
    /\ exit_status = "running"

Next ==
    \/ LoadModule
    \/ RequireThreads
    \/ ResolveDirect
    \/ FetchByHandle
    \/ FetchRandom
    \/ BuildText
    \/ CreateImage
    \/ CreateText
    \/ Publish

Spec == Init /\ [][Next]_vars

(***************************************************************************)
(* The caption composer alone, on every input within the bounds.           *)
(***************************************************************************)
TextChars == {" ", "&", "l", "t"}

LongTitle == [i \in 1..LongTitleLen |-> "l"]

TextTitles == SeqsUpTo(TextChars, MaxTitleLen) \cup {None, LongTitle}
TextDescs == SeqsUpTo(TextChars, MaxDescLen) \cup {None}
TextHandles == {None, <<>>, <<"h">>}
TextLimits == 0..MaxLimit \cup {DefaultLimit}

InitText ==
    /\ THREADS_USER_ACCESS_TOKEN = "tok"
    /\ THREADS_VISIBILITY = "everyone"
    /\ THREADS_TOPIC_TAG = ""
    /\ THREADS_AUTO_PUBLISH_TEXT = FALSE
    /\ CONTENT_TITLE = None /\ CONTENT_DESC = None
    /\ CONTENT_HANDLE = None /\ CONTENT_IMAGE_URL = None
    /\ SHOPIFY_TOKEN = "" /\ PRODUCT_HANDLE = None
    /\ CAPTION_LIMIT \in TextLimits
    /\ pc = "build"
    /\ title \in TextTitles
    /\ desc \in TextDescs
    /\ handle \in TextHandles
    /\ image_url = None
    /\ text = None
    /\ creation_id = Absent /\ post_id = Absent
    /\ calls = <<>>
    /\ error = NoError
    /\ exit_status = "running"

SpecText == InitText /\ [][BuildText]_vars

(***************************************************************************)
(* Properties of _build_text, checked under SpecText.                      *)
(***************************************************************************)
Composed == pc = "create"

EndsWith(s, suffix) ==
    Len(s) >= Len(suffix) /\ SubSeq(s, Len(s) - Len(suffix) + 1, Len(s)) = suffix

Contains(s, part) ==
    \E i \in 1..(Len(s) - Len(part) + 1) : SubSeq(s, i, i + Len(part) - 1) = part

\* C1: for every title, description, optional handle and caption limit, the
\* caption _build_text returns is no longer than the limit.
C1_CaptionWithinLimit == Composed => Len(text) <= CAPTION_LIMIT

\* C9: with a handle the caption ends with the canonical product URL of
\* exactly that handle, truncated or not; without a handle the caption holds
\* no such URL.
C9_LinkIffHandle ==
    Composed =>
        /\ Truthy(handle) => EndsWith(text, BlankLine \o ProductUrlBase \o handle)
        /\ ~Truthy(handle) => ~Contains(text, ProductUrlBase)

C9_Witness ==
    /\ Composed
    /\ Truthy(handle)
    /\ Len(Base(title, desc)) > CAPTION_LIMIT
    /\ EndsWith(text, ProductUrlBase \o handle)

\* C10 as stated, for the limits that leave limit - 3 characters (limit >= 3):
\* without a handle, a text longer than the limit becomes its first limit - 3
\* characters followed by "...", and a text within the limit is left
\* unchanged.
C10_TruncatedToLimitMinus3 ==
    (Composed /\ ~Truthy(handle) /\ CAPTION_LIMIT >= 3) =>
        LET base == Base(title, desc)
        IN  IF Len(base) > CAPTION_LIMIT
            THEN text = SubSeq(base, 1, CAPTION_LIMIT - 3) \o Ellipsis
            ELSE text = base

\* C10 as amended: without a handle and with a limit of at least 3, a text
\* longer than the limit becomes its first limit - 3 characters, with the
\* whitespace at their end removed, followed by "..."; a text within the limit
\* is left unchanged; a 300-character title with limit 280 gives 277
\* characters and "...".
C10_TruncatedAndTrimmed ==
    (Composed /\ ~Truthy(handle)) =>
        LET base == Base(title, desc)
        IN  /\ (Len(base) > CAPTION_LIMIT /\ CAPTION_LIMIT >= 3) =>
                   text = rstrip(SubSeq(base, 1, CAPTION_LIMIT - 3)) \o Ellipsis
            /\ Len(base) <= CAPTION_LIMIT => text = base
            /\ (title = LongTitle /\ ~Truthy(desc) /\ CAPTION_LIMIT = DefaultLimit) =>
                   text = [i \in 1..(DefaultLimit - 3) |-> "l"] \o Ellipsis

C10_Witness ==
    /\ Composed
    /\ ~Truthy(handle)
    /\ CAPTION_LIMIT >= 3
    /\ Len(Base(title, desc)) > CAPTION_LIMIT
    /\ Len(text) < CAPTION_LIMIT
    /\ EndsWith(text, Ellipsis)

(***************************************************************************)
(* Properties of the run, checked under Spec.                              *)
(***************************************************************************)
CallsTo(ep) == {i \in 1..Len(calls) : calls[i].ep = ep}
Count(ep) == Cardinality(CallsTo(ep))

\* the content item has been resolved
Resolved == title # None

\* content resolution (line 143 on) has been entered and left
ResolutionRun ==
    /\ pc \notin {"load", "require", "content"}
    /\ error \notin {"NameError", "ThreadsTokenMissing"}

DirectSupplied == Truthy(CONTENT_TITLE) /\ Truthy(CONTENT_DESC)

\* C2: a text-only post with auto-publish enabled calls the create-container
\* endpoint at most once and never the publish endpoint, whether the create
\* call succeeds or fails.
C2_AutoPublishTextNeverPublishes ==
    (THREADS_AUTO_PUBLISH_TEXT /\ Resolved /\ ~Truthy(image_url)) =>
        /\ Count("publish") = 0
        /\ Count("create") <= 1
        /\ pc = "end" => Count("create") = 1 /\ calls[Len(calls)].ep = "create"

C2_Witness ==
    /\ THREADS_AUTO_PUBLISH_TEXT
    /\ Resolved
    /\ ~Truthy(image_url)
    /\ pc = "end"
    /\ exit_status = "ok"
    /\ Count("create") = 1
    /\ Count("publish") = 0

\* C3: the publish endpoint is called only right after a create-container
\* call that succeeded, with the identifier that call returned; a returned
\* identifier is published exactly once, unless the create request carried
\* the auto-publish flag, and then no call follows it.
C3_PublishConsumesCreationId ==
    /\ Count("publish") <= 1
    /\ \A i \in CallsTo("publish") :
          /\ i > 1
          /\ calls[i - 1].ep = "create"
          /\ calls[i - 1].outcome = "ok"
          /\ calls[i].creation_id = calls[i - 1].id
    /\ \A i \in CallsTo("create") :
          calls[i].outcome = "ok" =>
              IF calls[i].auto_publish_text = "true"
              THEN i = Len(calls) /\ pc = "end"
              ELSE IF pc = "end"
                   THEN /\ Len(calls) = i + 1
                        /\ calls[i + 1].ep = "publish"
                        /\ calls[i + 1].creation_id = calls[i].id
                   ELSE pc = "publish" /\ i = Len(calls) /\ creation_id = calls[i].id

C3_Witness ==
    /\ pc = "end"
    /\ exit_status = "ok"
    /\ Count("publish") = 1
    /\ calls[Len(calls)].creation_id = "c2"

\* what makes content resolution fail: the catalog token is missing, the
\* catalog call fails, the page is empty (random pick) or holds no product
\* with the configured handle (pick by handle)
HandleOnPage(page, h) ==
    \E i \in 1..Len(page) : lower(Or(page[i].handle, <<>>)) = lower(h)

ResolutionFails ==
    /\ ~DirectSupplied
    /\ \/ SHOPIFY_TOKEN = ""
       \/ \E i \in CallsTo("catalog") :
             \/ calls[i].outcome # "ok"
             \/ ~Truthy(PRODUCT_HANDLE) /\ calls[i].products = <<>>
             \/ Truthy(PRODUCT_HANDLE) /\ ~HandleOnPage(calls[i].products, PRODUCT_HANDLE)

\* C4: when content resolution fails, the run ends in failure and neither the
\* create-container nor the publish endpoint is called.
C4_ResolutionFailureAborts ==
    (ResolutionRun /\ ResolutionFails) =>
        /\ pc = "end"
        /\ exit_status = "failed"
        /\ Count("create") = 0
        /\ Count("publish") = 0

C4_Witness ==
    /\ ResolutionRun
    /\ ResolutionFails
    /\ Truthy(PRODUCT_HANDLE)
    /\ Count("catalog") = 1
    /\ calls[1].outcome = "ok"
    /\ calls[1].products # <<>>
    /\ error = "NoProductFound"

\* C5: each remote call is made at most once, a failed call is the last call
\* of the run and the run then ends in failure; so a failed publish after a
\* successful create is not retried and not compensated.
C5_AtMostOnceNoRetry ==
    /\ Count("catalog") <= 1
    /\ Count("create") <= 1
    /\ Count("publish") <= 1
    /\ \A i \in 1..Len(calls) :
          calls[i].outcome # "ok" =>
              i = Len(calls) /\ pc = "end" /\ exit_status = "failed"

C5_Witness ==
    /\ pc = "end"
    /\ exit_status = "failed"
    /\ Len(calls) = 3
    /\ calls[2].ep = "create" /\ calls[2].outcome = "ok"
    /\ calls[3].ep = "publish" /\ calls[3].outcome = "Timeout"

\* C6: with an empty THREADS_USER_ACCESS_TOKEN no remote call is ever made:
\* the run never gets past the credential check and ends in failure.
C6_NoTokenNoCall ==
    THREADS_USER_ACCESS_TOKEN = "" =>
        /\ calls = <<>>
        /\ pc \in {"load", "require", "end"}
        /\ pc = "end" => exit_status = "failed"

C6_Witness ==
    /\ THREADS_USER_ACCESS_TOKEN = ""
    /\ pc = "end"
    /\ error = "ThreadsTokenMissing"
    /\ calls = <<>>

\* C7 as stated: content resolution reads the catalog exactly once when no
\* direct title and description are supplied, and never when they are.
C7_OneReadUnlessDirect ==
    ResolutionRun => Count("catalog") = IF DirectSupplied THEN 0 ELSE 1

\* C7 as amended: content resolution reads the catalog exactly once when no
\* direct title and description are supplied and the catalog token is
\* present, not at all when the token is missing, and never when a direct
\* title and description are supplied, whatever else is configured.
C7_OneReadUnlessDirectOrNoToken ==
    ResolutionRun =>
        Count("catalog") = IF DirectSupplied \/ SHOPIFY_TOKEN = "" THEN 0 ELSE 1

C7_Witness ==
    /\ ResolutionRun
    /\ ~DirectSupplied
    /\ SHOPIFY_TOKEN # ""
    /\ Resolved
    /\ pc = "end"
    /\ exit_status = "ok"
    /\ Count("catalog") = 1

\* the kind and the auto-publish flag of every create-container request
KindFollowsImage(c) ==
    /\ c.media_type = (IF Truthy(image_url) THEN "IMAGE" ELSE "TEXT")
    /\ c.auto_publish_text # Absent => c.media_type = "TEXT"
    /\ c.media_type = "IMAGE" => c.image_url = image_url

\* C8 as stated: a create-container request is IMAGE exactly when the resolved
\* content has an image URL and TEXT otherwise, the auto-publish flag goes
\* only with TEXT, and an IMAGE request carries the title as alt text.
C8_ImageCarriesTitleAsAlt ==
    \A i \in CallsTo("create") :
        /\ KindFollowsImage(calls[i])
        /\ calls[i].media_type = "IMAGE" => calls[i].alt_text = title

\* C8 as amended: as stated, but an IMAGE request carries the title as alt
\* text only when the title is not empty; with an empty title it carries no
\* alt text.
C8_ImageCarriesNonEmptyTitleAsAlt ==
    \A i \in CallsTo("create") :
        /\ KindFollowsImage(calls[i])
        /\ calls[i].media_type = "IMAGE" =>
               calls[i].alt_text = (IF title # <<>> THEN title ELSE None)

C8_Witness ==
    \E i \in CallsTo("create") :
        /\ calls[i].media_type = "IMAGE"
        /\ calls[i].alt_text = title
        /\ THREADS_AUTO_PUBLISH_TEXT
        /\ calls[i].auto_publish_text = Absent

====
